---- MODULE Spec2Model ----
(***************************************************************************)
(* Support-ticket application (streamlit_app.py): one SQLite table         *)
(* "tickets", and browser sessions that each hold a snapshot of it in      *)
(* st.session_state.df.  Every database function opens its own connection, *)
(* runs one statement and commits, so the statements of different sessions *)
(* interleave; the script of one session runs sequentially.                *)
(*                                                                         *)
(* Text values whose content the program inspects (ticket ids, the issue   *)
(* text) are sequences of one-character strings.                           *)
(***************************************************************************)
EXTENDS Integers, Sequences, FiniteSets, TLC

\* ------------------------------------------------------------------ bounds
MaxTickets   == 2   \* rows of the table
MaxRuns      == 3   \* creations and reconciliation passes started, over all sessions
MaxClock     == 1   \* seconds the clock may advance
DayLength    == 2   \* seconds per calendar day of the model's clock

Sessions == {1, 2}

\* The values a user picks in the model: in the priority selectbox of the form
\* and in the Status and Priority cells of the grid.
PickedStatus   == {"Open", "Closed"}
PickedPriority == {"High", "Low"}

\* Inputs of the text area: empty, whitespace only, and texts with content.
Issues == { <<>>, <<" ">>, <<" ", " ">>, <<" ", "a">> }

\* ------------------------------------------------------- program constants
StatusOptions   == {"Open", "In Progress", "Closed"}
PriorityOptions == {"High", "Medium", "Low"}
FirstTicketNumber == 1001
IdPrefix == <<"T", "I", "C", "K", "E", "T", "-">>
Whitespace == {" "}
DigitChars == <<"0", "1", "2", "3", "4", "5", "6", "7", "8", "9">>

VARIABLES
    table,        \* rows of tickets, in rowid (insertion) order
    now,          \* the clock, in seconds
    df,           \* df[s]: st.session_state.df of session s
    pc,           \* pc[s]: "idle", "save" (between get_next_ticket_number and
                  \*        the INSERT) or "update" (inside the reconciliation loop)
    ticket_data,  \* ticket_data[s]: <<the dict built by the submit handler>> or <<>>
    edited_df,    \* edited_df[s]: the grid returned by st.data_editor
    idx,          \* idx[s]: next row of the reconciliation loop
    calls,        \* calls[s]: update_ticket_in_db calls that returned, this pass
    msg,          \* the st.error / st.success box the latest script run drew,
                  \* and the session it drew it in
    before,       \* before[s]: the table as it would be without the statements
                  \*            of the handler session s is running
    nRuns         \* creations and reconciliation passes started so far

vars == <<table, now, df, pc, ticket_data, edited_df, idx, calls, msg, before,
          nRuns>>

\* ------------------------------------------------------------ text helpers
IsDigit(c) == \E d \in 1..10 : DigitChars[d] = c

DigitVal(c) == (CHOOSE d \in 1..10 : DigitChars[d] = c) - 1

RECURSIVE Digits(_)
Digits(n) ==
    IF n < 10 THEN <<DigitChars[n + 1]>>
    ELSE Digits(n \div 10) \o <<DigitChars[(n % 10) + 1]>>

\* f"TICKET-{ticket_number}"
FormatId(n) == IdPrefix \o Digits(n)

\* SQL SUBSTR(text, start): from the start-th character (1-based) to the end.
SUBSTR(text, start) == SubSeq(text, start, Len(text))

\* SQL CAST(text AS INTEGER): the longest prefix of digits, 0 when there is none.
RECURSIVE CastDigits(_, _)
CastDigits(text, acc) ==
    IF text = <<>> \/ ~IsDigit(Head(text)) THEN acc
    ELSE CastDigits(Tail(text), acc * 10 + DigitVal(Head(text)))

CAST_INTEGER(text) == CastDigits(text, 0)

\* str.strip(): leading and trailing whitespace removed.
RECURSIVE lstrip(_)
lstrip(text) ==
    IF text # <<>> /\ Head(text) \in Whitespace THEN lstrip(Tail(text)) ELSE text

RECURSIVE rstrip(_)
rstrip(text) ==
    IF text # <<>> /\ text[Len(text)] \in Whitespace
    THEN rstrip(SubSeq(text, 1, Len(text) - 1)) ELSE text

strip(text) == rstrip(lstrip(text))

\* `not issue`: the text is not stripped first.
IsBlankNoStrip(issue) == issue = <<>>

\* `not issue.strip()`: the validation of the submit handler.
IsBlank(issue) == strip(issue) = <<>>

SetMax(S) == CHOOSE m \in S : \A x \in S : x <= m

\* datetime.datetime.now().strftime("%Y-%m-%d")
Today(t) == t \div DayLength

\* ------------------------------------------------------- database functions
\* CREATE TABLE IF NOT EXISTS tickets (id TEXT PRIMARY KEY, ...): a fresh file.
init_database == <<>>

Ids(t) == { t[i].id : i \in 1..Len(t) }

Row(td, ts) ==
    [id |-> td.ID, issue |-> td.Issue, status |-> td.Status,
     priority |-> td.Priority, date_submitted |-> td.DateSubmitted,
     created_at |-> ts]

\* The exception is raised after the statement was committed.
ExecuteCommitted(t, result, fault) ==
    IF fault THEN [raised |-> "storage", tbl |-> result.tbl] ELSE result

\* cursor.execute(...) followed by conn.commit(): when the statement raises
\* (fault), commit is never reached and the table stays as it was; otherwise the
\* statement's own result stands.
Execute(t, result, fault) ==
    IF fault THEN [raised |-> "storage", tbl |-> t] ELSE result

\* INSERT into a table declared without the primary key on id.
save_ticket_no_key(t, td, ts) ==
    [raised |-> "", tbl |-> Append(t, Row(td, ts))]

\* INSERT INTO tickets ...; commit.  id is the PRIMARY KEY: a second row with
\* the same id raises IntegrityError (UNIQUE constraint failed) and stores
\* nothing.  created_at defaults to CURRENT_TIMESTAMP.
save_ticket_to_db(t, td, ts) ==
    IF td.ID \in Ids(t) THEN [raised |-> "UNIQUE", tbl |-> t]
    ELSE [raised |-> "", tbl |-> Append(t, Row(td, ts))]

\* The SELECT list of load_tickets_from_db: created_at is not selected.
Project(r) ==
    [ID |-> r.id, Issue |-> r.issue, Status |-> r.status,
     Priority |-> r.priority, DateSubmitted |-> r.date_submitted]

Perms(n) == { p \in [1..n -> 1..n] : \A i, j \in 1..n : i # j => p[i] # p[j] }

load_tickets_ascending(t) ==
    { [i \in 1..Len(t) |-> Project(t[p[i]])] :
        p \in { q \in Perms(Len(t)) :
                  \A i, j \in 1..Len(t) :
                      i < j => t[q[i]].created_at <= t[q[j]].created_at } }

\* SELECT ... ORDER BY created_at DESC.  SQL leaves the order of rows with equal
\* created_at open, so the function has a set of possible results.
load_tickets_from_db(t) ==
    { [i \in 1..Len(t) |-> Project(t[p[i]])] :
        p \in { q \in Perms(Len(t)) :
                  \A i, j \in 1..Len(t) :
                      i < j => t[q[i]].created_at >= t[q[j]].created_at } }

\* UPDATE without the WHERE clause.
update_ticket_all_rows(t, ticket_id, status, priority) ==
    [raised |-> "",
     tbl |-> [i \in 1..Len(t) |->
                [t[i] EXCEPT !.status = status, !.priority = priority]]]

\* SET status = ?, priority = status: the second column reads the old first one.
update_ticket_shifted(t, ticket_id, status, priority) ==
    [raised |-> "",
     tbl |-> [i \in 1..Len(t) |->
                IF t[i].id = ticket_id
                THEN [t[i] EXCEPT !.status = status, !.priority = t[i].status]
                ELSE t[i]]]

\* The parameter tuple is (priority, status, ticket_id).
update_ticket_swapped(t, ticket_id, status, priority) ==
    [raised |-> "",
     tbl |-> [i \in 1..Len(t) |->
                IF t[i].id = ticket_id
                THEN [t[i] EXCEPT !.status = priority, !.priority = status]
                ELSE t[i]]]

\* SET status = ? only.
update_ticket_status_only(t, ticket_id, status, priority) ==
    [raised |-> "",
     tbl |-> [i \in 1..Len(t) |->
                IF t[i].id = ticket_id
                THEN [t[i] EXCEPT !.status = status]
                ELSE t[i]]]

\* UPDATE tickets SET status = ?, priority = ? WHERE id = ?; commit.
\* A statement that matches no row is not an error.
update_ticket_in_db(t, ticket_id, status, priority) ==
    [raised |-> "",
     tbl |-> [i \in 1..Len(t) |->
                IF t[i].id = ticket_id
                THEN [t[i] EXCEPT !.status = status, !.priority = priority]
                ELSE t[i]]]

next_number_from_1000(t) ==
    LET result == { CAST_INTEGER(SUBSTR(t[i].id, 8)) : i \in 1..Len(t) }
    IN  IF result = {} THEN 1000 ELSE SetMax(result) + 1

\* SELECT MAX(CAST(SUBSTR(id, 8) AS INTEGER)) FROM tickets; None on no rows.
get_next_ticket_number(t) ==
    LET result == { CAST_INTEGER(SUBSTR(t[i].id, 8)) : i \in 1..Len(t) }
    IN  IF result = {} THEN FirstTicketNumber ELSE SetMax(result) + 1

\* ------------------------------------------------------------- the script
Message(s, kind, detail) == [session |-> s, kind |-> kind, detail |-> detail]

\* A run that draws neither st.error nor st.success.
NoMessage == Message(0, "none", "")

\* The comparison of the loop body: Status only.
RowChangedStatusOnly(row, original_row) == row.Status # original_row.Status

\* row['Status'] != original_row['Status'] or row['Priority'] != original_row['Priority']
RowChanged(row, original_row) ==
    \/ row.Status # original_row.Status
    \/ row.Priority # original_row.Priority

\* st.data_editor(df, disabled=["ID", "Issue", "Date Submitted"]): the grids a
\* user can hand back that make `not edited_df.equals(df)` true.
EditedGrids(d) ==
    { e \in { [i \in 1..Len(d) |->
                 [d[i] EXCEPT !.Status = c[i][1], !.Priority = c[i][2]]] :
               c \in [1..Len(d) -> PickedStatus \X PickedPriority] } :
        e # d }

\* for idx, row in edited_df.iterrows(): the rows from position k on that the
\* loop body sends to the database.
ChangedFrom(e, d, k) == { i \in k..Len(e) : RowChanged(e[i], d[i]) }

SetMin(S) == CHOOSE m \in S : \A x \in S : m <= x

Init ==
    /\ table = init_database
    /\ now = 0
    /\ df \in [Sessions -> load_tickets_from_db(init_database)]
    /\ pc = [s \in Sessions |-> "idle"]
    /\ ticket_data = [s \in Sessions |-> <<>>]
    /\ edited_df = [s \in Sessions |-> <<>>]
    /\ idx = [s \in Sessions |-> 0]
    /\ calls = [s \in Sessions |-> <<>>]
    /\ msg = NoMessage
    /\ before = [s \in Sessions |-> <<>>]
    /\ nRuns = 0

\* The clock advances.
Tick ==
    /\ now < MaxClock
    /\ now' = now + 1
    /\ UNCHANGED <<table, df, pc, ticket_data, edited_df, idx, calls, msg,
                   before, nRuns>>

\* The "Refresh from Database" button: the snapshot is loaded again.
Refresh(s) ==
    /\ pc[s] = "idle"
    /\ \E d \in load_tickets_from_db(table) : df' = [df EXCEPT ![s] = d]
    /\ msg' = NoMessage
    /\ UNCHANGED <<table, now, pc, ticket_data, edited_df, idx, calls, before,
                   nRuns>>

\* The form is submitted with an issue text the validation rejects.
SubmitBlank(s, issue) ==
    /\ pc[s] = "idle"
    /\ IsBlank(issue)
    /\ msg' = Message(s, "validation_error", "")
    /\ UNCHANGED <<table, now, df, pc, ticket_data, edited_df, idx, calls,
                   before, nRuns>>

\* The form is submitted: get_next_ticket_number and the ticket_data dict.  The
\* INSERT is the next statement of the session.
Submit(s, issue, priority) ==
    /\ pc[s] = "idle"
    /\ ~IsBlank(issue)
    /\ nRuns < MaxRuns
    /\ nRuns' = nRuns + 1
    /\ Len(table) + Cardinality({ t \in Sessions : pc[t] = "save" }) < MaxTickets
    /\ ticket_data' = [ticket_data EXCEPT ![s] =
           << [ID |-> FormatId(get_next_ticket_number(table)),
               Issue |-> issue,
               Status |-> "Open",
               Priority |-> priority,
               DateSubmitted |-> Today(now)] >>]
    /\ pc' = [pc EXCEPT ![s] = "save"]
    /\ before' = [before EXCEPT ![s] = table]
    /\ msg' = NoMessage
    /\ UNCHANGED <<table, now, df, edited_df, idx, calls>>

\* try: save_ticket_to_db; st.success; df = load_tickets_from_db(); st.rerun()
\* except Exception: st.error.
Save(s, fault) ==
    /\ pc[s] = "save"
    /\ LET td == ticket_data[s][1]
           r  == Execute(table, save_ticket_to_db(table, td, now), fault)
       IN  /\ table' = r.tbl
           /\ IF r.raised = ""
              THEN /\ \E d \in load_tickets_from_db(r.tbl) :
                         df' = [df EXCEPT ![s] = d]
                   /\ msg' = Message(s, "saved", "")
              ELSE /\ msg' = Message(s, "save_error", r.raised)
                   /\ UNCHANGED df
           /\ before' = [t \in Sessions |->
                 IF t = s \/ pc[t] = "idle" THEN <<>>
                 ELSE IF r.tbl # table THEN Append(before[t], Row(td, now))
                 ELSE before[t]]
    /\ pc' = [pc EXCEPT ![s] = "idle"]
    /\ ticket_data' = [ticket_data EXCEPT ![s] = <<>>]
    /\ UNCHANGED <<now, edited_df, idx, calls, nRuns>>

\* A cell edit reaches the script: st.data_editor returns a grid that differs
\* from the snapshot, and the reconciliation loop starts.
Edit(s, e) ==
    /\ pc[s] = "idle"
    /\ nRuns < MaxRuns
    /\ nRuns' = nRuns + 1
    /\ Len(df[s]) > 0
    /\ e \in EditedGrids(df[s])
    /\ pc' = [pc EXCEPT ![s] = "update"]
    /\ edited_df' = [edited_df EXCEPT ![s] = e]
    /\ idx' = [idx EXCEPT ![s] = 1]
    /\ calls' = [calls EXCEPT ![s] = <<>>]
    /\ before' = [before EXCEPT ![s] = table]
    /\ msg' = NoMessage
    /\ UNCHANGED <<table, now, df, ticket_data>>

\* One iteration of the loop that reaches update_ticket_in_db (the rows before
\* it that did not change are skipped).  An exception ends the loop in st.error.
Update(s, fault) ==
    /\ pc[s] = "update"
    /\ ChangedFrom(edited_df[s], df[s], idx[s]) # {}
    /\ LET k   == SetMin(ChangedFrom(edited_df[s], df[s], idx[s]))
           row == edited_df[s][k]
           r   == Execute(table,
                    update_ticket_in_db(table, row.ID, row.Status, row.Priority),
                    fault)
       IN  /\ table' = r.tbl
           /\ before' = [t \in Sessions |->
                 IF pc[t] = "idle" \/ (t = s /\ r.raised # "") THEN <<>>
                 ELSE IF t = s \/ r.tbl = table THEN before[t]
                 ELSE update_ticket_in_db(before[t], row.ID,
                          row.Status, row.Priority).tbl]
           /\ IF r.raised # ""
              THEN /\ msg' = Message(s, "update_error", r.raised)
                   /\ pc' = [pc EXCEPT ![s] = "idle"]
                   /\ edited_df' = [edited_df EXCEPT ![s] = <<>>]
                   /\ idx' = [idx EXCEPT ![s] = 0]
                   /\ UNCHANGED calls
              ELSE /\ calls' = [calls EXCEPT ![s] = Append(@,
                          [id |-> row.ID, status |-> row.Status,
                           priority |-> row.Priority])]
                   /\ idx' = [idx EXCEPT ![s] = k + 1]
                   /\ UNCHANGED <<msg, pc, edited_df>>
    /\ UNCHANGED <<now, df, ticket_data, nRuns>>

\* The loop has no row left: st.success and st.session_state.df = edited_df.
Finish(s) ==
    /\ pc[s] = "update"
    /\ ChangedFrom(edited_df[s], df[s], idx[s]) = {}
    /\ msg' = Message(s, "updated", "")
    /\ df' = [df EXCEPT ![s] = edited_df[s]]
    /\ pc' = [pc EXCEPT ![s] = "idle"]
    /\ edited_df' = [edited_df EXCEPT ![s] = <<>>]
    /\ idx' = [idx EXCEPT ![s] = 0]
    /\ before' = [before EXCEPT ![s] = <<>>]
    /\ calls' = [calls EXCEPT ![s] = <<>>]
    /\ UNCHANGED <<table, now, ticket_data, nRuns>>

Next ==
    \/ Tick
    \/ \E s \in Sessions : Refresh(s)
    \/ \E s \in Sessions, issue \in Issues : SubmitBlank(s, issue)
    \/ \E s \in Sessions, issue \in Issues, priority \in PickedPriority :
          Submit(s, issue, priority)
    \/ \E s \in Sessions, fault \in BOOLEAN : Save(s, fault)
    \/ \E s \in Sessions : \E e \in EditedGrids(df[s]) : Edit(s, e)
    \/ \E s \in Sessions, fault \in BOOLEAN : Update(s, fault)
    \/ \E s \in Sessions : Finish(s)

Spec == Init /\ [][Next]_vars

\* ----------------------------------------------------------------- claims
Suffix(id) == CAST_INTEGER(SubSeq(id, Len(IdPrefix) + 1, Len(id)))

Stored(t, id) == CHOOSE r \in { t[i] : i \in 1..Len(t) } : r.id = id

AllWhitespace(text) == \A i \in 1..Len(text) : text[i] = " "

\* d holds exactly the rows of t, each once and with the stored values, newest
\* created_at first.
IsListing(d, t) ==
    /\ Len(d) = Len(t)
    /\ \A i, j \in 1..Len(d) : i # j => d[i].ID # d[j].ID
    /\ \A i \in 1..Len(d) :
          /\ d[i].ID \in Ids(t)
          /\ d[i].Issue = Stored(t, d[i].ID).issue
          /\ d[i].Status = Stored(t, d[i].ID).status
          /\ d[i].Priority = Stored(t, d[i].ID).priority
          /\ d[i].DateSubmitted = Stored(t, d[i].ID).date_submitted
    /\ \A i, j \in 1..Len(d) :
          i < j => Stored(t, d[i].ID).created_at >= Stored(t, d[j].ID).created_at

\* The snapshot of a session inside a pass, with the rows the loop has passed
\* taken from the edited grid.
Progress(e, d, k) == [i \in 1..Len(d) |-> IF i < k THEN e[i] ELSE d[i]]

\* The first row from position k on whose Status or Priority cell differs.
FirstDiff(e, d, k) ==
    SetMin({ i \in k..Len(e) :
               e[i].Status # d[i].Status \/ e[i].Priority # d[i].Priority })

SavedBy(s) ==
    pc[s] = "save" /\ pc'[s] = "idle" /\ msg' = Message(s, "saved", "")

FailedIn(s) ==
    \/ Save(s, TRUE)
    \/ Save(s, FALSE) /\ ticket_data[s][1].ID \in Ids(table)
    \/ Update(s, TRUE)

\* C1: a successful creation appends one row whose id is TICKET-<n>, n being
\* 1001 on an empty table and otherwise the largest numeric suffix stored plus
\* one, so n exceeds every suffix stored before; the row has status Open and
\* the issue and priority that were submitted.
C1_NextTicketNumber ==
    [][\A s \in Sessions : SavedBy(s) =>
          LET old == { Suffix(table[i].id) : i \in 1..Len(table) }
              n   == IF table = <<>> THEN 1001 ELSE SetMax(old) + 1
              row == table'[Len(table')]
          IN  /\ Len(table') = Len(table) + 1
              /\ SubSeq(table', 1, Len(table)) = table
              /\ row.id = <<"T", "I", "C", "K", "E", "T", "-">> \o Digits(n)
              /\ Suffix(row.id) = n
              /\ \A m \in old : m < n
              /\ row.status = "Open"
              /\ row.priority = ticket_data[s][1].Priority
              /\ row.issue = ticket_data[s][1].Issue]_vars

\* Two creations have succeeded: TICKET-1001, then TICKET-1002.
C1_Witness ==
    /\ Len(table) = 2
    /\ table[1].id = <<"T", "I", "C", "K", "E", "T", "-", "1", "0", "0", "1">>
    /\ table[2].id = <<"T", "I", "C", "K", "E", "T", "-", "1", "0", "0", "2">>
    /\ msg.kind = "saved"

\* C2: no two rows share an id; a row keeps its id, issue, date and creation
\* time for ever and no row is removed; an INSERT of an id that is already
\* stored fails, adds nothing and shows an error in that session, and an INSERT
\* of an id that is not stored succeeds unless the storage itself fails.  So of
\* two sessions holding the same candidate id at most one inserts it.
C2_UniqueIds ==
    [][/\ \A i, j \in 1..Len(table') : i # j => table'[i].id # table'[j].id
       /\ Len(table') >= Len(table)
       /\ \A i \in 1..Len(table) :
             /\ table'[i].id = table[i].id
             /\ table'[i].issue = table[i].issue
             /\ table'[i].date_submitted = table[i].date_submitted
             /\ table'[i].created_at = table[i].created_at
       /\ \A s \in Sessions : (pc[s] = "save" /\ pc'[s] = "idle") =>
             IF ticket_data[s][1].ID \in Ids(table)
             THEN /\ table' = table
                  /\ msg'.session = s
                  /\ msg'.kind = "save_error"
             ELSE \/ /\ msg' = Message(s, "saved", "")
                     /\ Len(table') = Len(table) + 1
                     /\ table'[Len(table')].id = ticket_data[s][1].ID
                  \/ /\ msg' = Message(s, "save_error", "storage")
                     /\ table' = table]_vars

\* Two sessions computed the same id: it is stored once, and the session that
\* came second was shown the key error.
C2_Witness ==
    /\ Len(table) = 1
    /\ msg.kind = "save_error"
    /\ msg.detail = "UNIQUE"
    /\ \E s \in Sessions : s # msg.session /\ Len(df[s]) = 1

\* C3: a submission whose issue text is empty or only whitespace stores
\* nothing, leaves every snapshot and the next ticket number as they were,
\* starts no creation, and shows the validation error in that session.
C3_BlankRejected ==
    [][\A s \in Sessions, issue \in Issues :
          (/\ AllWhitespace(issue)
           /\ \/ SubmitBlank(s, issue)
              \/ \E priority \in PickedPriority : Submit(s, issue, priority))
          => /\ table' = table
             /\ df' = df
             /\ pc' = pc
             /\ ticket_data' = ticket_data
             /\ get_next_ticket_number(table') = get_next_ticket_number(table)
             /\ msg' = Message(s, "validation_error", "")]_vars

\* The validation error is on screen.
C3_Witness ==
    /\ msg.kind = "validation_error"
    /\ pc[msg.session] = "idle"
    /\ ticket_data[msg.session] = <<>>

C7_Original ==
    \A d \in load_tickets_from_db(table) :
        \A a, b \in 1..Len(table) : a > b =>
            \E i, j \in 1..Len(d) :
                i < j /\ d[i].ID = table[a].id /\ d[j].ID = table[b].id

\* C7: a refresh leaves the table as it was and loads every row once; the
\* created_at seconds never decrease in insertion order, and a ticket whose
\* created_at second is later than another's comes before it in the list.
\* Tickets created in the same second come in either order.
C7_NewestFirst ==
    [][\A s \in Sessions : Refresh(s) =>
          /\ table' = table
          /\ Len(df'[s]) = Len(table)
          /\ \A a \in 1..Len(table) : \E i \in 1..Len(df'[s]) :
                /\ df'[s][i].ID = table[a].id
                /\ df'[s][i].Status = table[a].status
                /\ df'[s][i].Priority = table[a].priority
          /\ \A a, b \in 1..Len(table) :
                /\ a > b => table[a].created_at >= table[b].created_at
                /\ table[a].created_at > table[b].created_at =>
                      \E i, j \in 1..Len(df'[s]) :
                          /\ i < j
                          /\ df'[s][i].ID = table[a].id
                          /\ df'[s][j].ID = table[b].id]_vars

\* Two tickets created in different seconds, listed newest first.
C7_Witness ==
    /\ Len(table) = 2
    /\ table[2].created_at > table[1].created_at
    /\ \E s \in Sessions :
          /\ pc[s] = "idle"
          /\ Len(df[s]) = 2
          /\ df[s][1].ID = table[2].id
          /\ df[s][2].ID = table[1].id

\* The calls a pass makes, in order: one for every row that differs from the
\* snapshot in Status or Priority, with that row's id and edited values.
RECURSIVE ExpectedCalls(_, _, _)
ExpectedCalls(e, d, k) ==
    IF k > Len(e) THEN <<>>
    ELSE (IF e[k].Status # d[k].Status \/ e[k].Priority # d[k].Priority
          THEN << [id |-> e[k].ID, status |-> e[k].Status,
                   priority |-> e[k].Priority] >>
          ELSE <<>>) \o ExpectedCalls(e, d, k + 1)

\* C9 as stated: ... and when the pass ends, the stored status and priority of
\* every ticket of the snapshot equal the edited values.
C9_Original ==
    [][\A s \in Sessions : Finish(s) =>
          /\ calls[s] = ExpectedCalls(edited_df[s], df[s], 1)
          /\ \A i \in 1..Len(edited_df[s]) :
                /\ Stored(table', edited_df[s][i].ID).status = edited_df[s][i].Status
                /\ Stored(table', edited_df[s][i].ID).priority
                     = edited_df[s][i].Priority]_vars

\* C9: the pass compares position by position; every Update call is for the
\* next row that differs in Status or Priority, carries that row's id and edited
\* values, and leaves exactly these stored for that id; a pass that ends
\* successfully has made exactly one call per differing row, in order, and none
\* for the other rows, whose stored values it does not touch.
C9_OneCallPerChangedRow ==
    [][\A s \in Sessions :
          /\ Update(s, FALSE) =>
                LET k == FirstDiff(edited_df[s], df[s], idx[s])
                    row == edited_df[s][k]
                IN  /\ calls'[s] = Append(calls[s],
                           [id |-> row.ID, status |-> row.Status,
                            priority |-> row.Priority])
                    /\ Stored(table', row.ID).status = row.Status
                    /\ Stored(table', row.ID).priority = row.Priority
                    /\ \A i \in 1..Len(table) :
                          table[i].id # row.ID => table'[i] = table[i]
          /\ Finish(s) =>
                /\ calls[s] = ExpectedCalls(edited_df[s], df[s], 1)
                /\ table' = table]_vars

\* A pass over a two-row snapshot is complete with one call: one row differed.
C9_Witness ==
    \E s \in Sessions :
        /\ pc[s] = "update"
        /\ Len(df[s]) = 2
        /\ Len(calls[s]) = 1
        /\ ChangedFrom(edited_df[s], df[s], idx[s]) = {}
        /\ calls[s] = ExpectedCalls(edited_df[s], df[s], 1)

\* C10 as stated: the Update call for a row whose Status alone was edited
\* leaves the stored priority as storage held it before the call, and the call
\* for a row whose Priority alone was edited leaves the stored status so.
C10_Original ==
    [][\A s \in Sessions : Update(s, FALSE) =>
          LET k == FirstDiff(edited_df[s], df[s], idx[s])
              row == edited_df[s][k]
              orig == df[s][k]
          IN  /\ (row.Status # orig.Status /\ row.Priority = orig.Priority) =>
                    Stored(table', row.ID).priority = Stored(table, row.ID).priority
              /\ (row.Priority # orig.Priority /\ row.Status = orig.Status) =>
                    Stored(table', row.ID).status = Stored(table, row.ID).status]_vars

\* C10: the Update call for a row whose Status alone was edited stores the
\* priority the session's own snapshot shows for that row, and the call for a
\* row whose Priority alone was edited stores the snapshot's status; the value
\* storage held before the call is overwritten, whatever session committed it.
C10_SnapshotValueStored ==
    [][\A s \in Sessions : Update(s, FALSE) =>
          LET k == FirstDiff(edited_df[s], df[s], idx[s])
              row == edited_df[s][k]
              orig == df[s][k]
          IN  /\ (row.Status # orig.Status /\ row.Priority = orig.Priority) =>
                    Stored(table', row.ID).priority = orig.Priority
              /\ (row.Priority # orig.Priority /\ row.Status = orig.Status) =>
                    Stored(table', row.ID).status = orig.Status]_vars

\* A session edited only the Status of a ticket; its call has stored the
\* priority of its snapshot, which differs from the priority the other session
\* shows for the same ticket.
C10_Witness ==
    \E s, t \in Sessions :
        /\ s # t
        /\ pc[s] = "update"
        /\ calls[s] # <<>>
        /\ edited_df[s][1].Status # df[s][1].Status
        /\ edited_df[s][1].Priority = df[s][1].Priority
        /\ calls[s][1].id = df[s][1].ID
        /\ Stored(table, df[s][1].ID).priority = df[s][1].Priority
        /\ \E j \in 1..Len(df[t]) :
              /\ df[t][j].ID = df[s][1].ID
              /\ df[t][j].Priority # df[s][1].Priority

\* ------------------------------------------- update_ticket_in_db on its own
\* The function called directly, on every table of up to MaxTickets tickets the
\* program can have stored and with every id, existing or not.
UpdateIds == { FormatId(FirstTicketNumber + n) : n \in 0..MaxTickets }

UpdateTables ==
    UNION { [1..n -> StatusOptions \X PriorityOptions] : n \in 0..MaxTickets }

InitUpdate ==
    /\ \E c \in UpdateTables :
          table = [i \in 1..Len(c) |->
                     [id |-> FormatId(FirstTicketNumber + i - 1),
                      issue |-> <<" ", "a">>,
                      status |-> c[i][1], priority |-> c[i][2],
                      date_submitted |-> Today(0), created_at |-> 0]]
    /\ now = 0
    /\ df = [s \in Sessions |-> <<>>]
    /\ pc = [s \in Sessions |-> "idle"]
    /\ ticket_data = [s \in Sessions |-> <<>>]
    /\ edited_df = [s \in Sessions |-> <<>>]
    /\ idx = [s \in Sessions |-> 0]
    /\ calls = [s \in Sessions |-> <<>>]
    /\ msg = NoMessage
    /\ before = [s \in Sessions |-> <<>>]
    /\ nRuns = 0

\* calls[1] holds the call just made, twice when it repeats the one before it.
UpdateCall(ticket_id, status, priority) ==
    LET r == update_ticket_in_db(table, ticket_id, status, priority)
        c == [id |-> ticket_id, status |-> status, priority |-> priority]
    IN  /\ table' = r.tbl
        /\ calls' = [calls EXCEPT ![1] =
               IF @ # <<>> /\ @[1] = c THEN <<c, c>> ELSE <<c>>]
        /\ msg' = IF r.raised = "" THEN Message(1, "updated", "")
                  ELSE Message(1, "update_error", r.raised)
        /\ UNCHANGED <<now, df, pc, ticket_data, edited_df, idx, before, nRuns>>

NextUpdate ==
    \E ticket_id \in UpdateIds, status \in StatusOptions,
       priority \in PriorityOptions : UpdateCall(ticket_id, status, priority)

SpecUpdate == InitUpdate /\ [][NextUpdate]_vars

\* C4: a call on a stored id sets that row's status and priority to the values
\* given and leaves its id, issue, date_submitted and created_at, and every
\* other row, as they were; a call on an id that is not stored changes nothing;
\* neither adds or removes a row, and neither raises.
C4_UpdateFrame ==
    [][\A ticket_id \in UpdateIds, status \in StatusOptions,
          priority \in PriorityOptions :
          UpdateCall(ticket_id, status, priority) =>
             /\ msg'.kind = "updated"
             /\ Len(table') = Len(table)
             /\ \A i \in 1..Len(table) :
                   IF table[i].id = ticket_id
                   THEN /\ table'[i].status = status
                        /\ table'[i].priority = priority
                        /\ table'[i].id = table[i].id
                        /\ table'[i].issue = table[i].issue
                        /\ table'[i].date_submitted = table[i].date_submitted
                        /\ table'[i].created_at = table[i].created_at
                   ELSE table'[i] = table[i]
             /\ ticket_id \notin Ids(table) => table' = table]_vars

\* A call on the first of two stored tickets has set its status and priority
\* to values the second ticket does not have.
C4_Witness ==
    /\ Len(table) = 2
    /\ Len(calls[1]) = 1
    /\ calls[1][1].id = table[1].id
    /\ table[1].status = calls[1][1].status
    /\ table[1].priority = calls[1][1].priority
    /\ table[2].status # table[1].status
    /\ table[2].priority # table[1].priority

\* C8: on every table, and for every id, status and priority, a second call
\* with the same arguments returns the table the first call returned.
C8_Idempotent ==
    \A ticket_id \in UpdateIds, status \in StatusOptions,
       priority \in PriorityOptions :
        LET once == update_ticket_in_db(table, ticket_id, status, priority).tbl
        IN  update_ticket_in_db(once, ticket_id, status, priority).tbl = once

\* The same call on a stored ticket was made twice in a row.
C8_Witness ==
    /\ Len(calls[1]) = 2
    /\ calls[1][1] = calls[1][2]
    /\ calls[1][1].id \in Ids(table)
    /\ Stored(table, calls[1][1].id).status = calls[1][1].status

====
